---- MODULE Spec2Model ----
(***************************************************************************)
(* Voice pool (Synth), voices (VoiceBase and its oscillator subclasses)    *)
(* and the ADSR automation they schedule on the gain AudioParam of the     *)
(* sw-synth package.                                                       *)
(*                                                                         *)
(* Times are integer clock ticks.  Gain values and time constants are      *)
(* exact fractions [n, d]; d = 0 stands for the non-finite results of a    *)
(* JavaScript division by zero (n > 0: Infinity, n < 0: -Infinity,         *)
(* n = 0: NaN).                                                            *)
(***************************************************************************)
EXTENDS Integers, Sequences, FiniteSets, TLC

\* Largest pool size passed to setPolyphony.
MaxPolyphony == 2
\* Number of voice objects constructed in one run.
MaxVoices == 2
\* Number of note identifiers issued in one run.
MaxNotes == 3
\* Last value of the audio clock.
MaxTime == 3
\* Number of note identifiers issued in one run of the envelope specification.
MaxEnvNotes == 2
\* Number of allocation rounds a voice is aged through in one run.
MaxRounds == 2
\* Number of note identifiers issued in one run of the waveform specification.
MaxWaveNotes == 2
\* Number of note identifiers issued in one run of the two synths.
MaxTwoNotes == 2
\* Last value of the audio clock in one run of the two synths.
MaxTwoTime == 1

\* Number of note identifiers issued in one run of a pool of any voice class.
MaxBufferNotes == 2
\* Last value of the audio clock in one run of a pool of any voice class.
MaxBufferTime == 1

VARIABLES
  kind,         \* class of the synth: which _newVoice() it has
  voices,       \* Synth.voices: the pool, a sequence of voice objects (by voiceId)
  heap,         \* every voice object constructed so far, by voiceId
  voiceParams,  \* Synth.voiceParams
  NOTE_ID,      \* module-level note id counter
  VOICE_ID,     \* module-level voice id counter
  currentTime,  \* context.currentTime
  closures,     \* the noteOff closures issued so far, by the note id they captured
  ret,          \* the last call: its name, arguments, outcome and AudioParam calls
  run,          \* the successful Synth.noteOn calls made in a row: <<[voice, id]>>
  other         \* voices and voiceParams of a second Synth on the same context

vars == <<kind, voices, heap, voiceParams, NOTE_ID, VOICE_ID, currentTime,
          closures, ret, run, other>>

----------------------------------------------------------------------------
(* Numbers *)

RECURSIVE GCD(_, _)
GCD(a, b) == IF b = 0 THEN a ELSE GCD(b, a % b)

Abs(x) == IF x < 0 THEN -x ELSE x

Sign(x) == IF x > 0 THEN 1 ELSE IF x < 0 THEN -1 ELSE 0

\* The fraction n / d in lowest terms; a zero denominator keeps only the sign.
Frac(n, d) ==
  IF d = 0 THEN [n |-> Sign(n), d |-> 0]
  ELSE LET g == GCD(Abs(n), Abs(d))
       IN  [n |-> Sign(n) * Sign(d) * (Abs(n) \div g), d |-> Abs(d) \div g]

Num(i) == Frac(i, 1)

Mul(a, b) == Frac(a.n * b.n, a.d * b.d)

Div(a, b) == Frac(a.n * b.d, a.d * b.n)

Finite(a) == a.d # 0

Less(a, b) == a.n * b.d < b.n * a.d

\* const TIME_CONSTANT = 0.5
TIME_CONSTANT == Frac(1, 2)

\* const EXPIRED = 10000
EXPIRED == 10000

----------------------------------------------------------------------------
(* Parameters *)

\* An unset Synth.voiceParams.
undefined == [defined |-> FALSE]

\* VoiceBaseParams with the waveform fields of OscillatorVoiceParams and
\* UnisonVoiceParams.
Params(audioDelay, attackTime, type, periodicWave) ==
  [defined |-> TRUE, audioDelay |-> audioDelay, attackTime |-> attackTime,
   decayTime |-> 3, sustainLevel |-> Frac(4, 5), releaseTime |-> 1,
   type |-> type, periodicWave |-> periodicWave, stackSize |-> 3,
   spread |-> Frac(3, 2)]

\* defaultParams(): a short audio delay, an attack of some ticks, a triangle wave.
defaultParams == Params(1, 2, "triangle", FALSE)

\* The parameter records assigned to Synth.voiceParams: the defaults, a zero
\* attack, and a custom type without its periodic wave.
PoolParams ==
  { defaultParams,
    Params(1, 0, "triangle", FALSE),
    Params(0, 2, "custom", FALSE) }

\* The velocities and frequencies passed to Synth.noteOn.
Velocities == {1}

Frequencies == {440}

----------------------------------------------------------------------------
(* AudioParam timeline *)

\* One call on an AudioParam of a voice, tagged with the note that made it.
Call(voice, param, fn, value, time, tc, note) ==
  [voice |-> voice, param |-> param, fn |-> fn, value |-> value, time |-> time,
   tc |-> tc, note |-> note]

\* cancelScheduledValues(t): drops the events scheduled at or after t.
cancelScheduledValues(gain, t) == SelectSeq(gain, LAMBDA e : e.time < t)

\* An event takes its place on the timeline after the events scheduled at or
\* before its time.
InsertEvent(S, e) ==
  LET k == Cardinality({i \in DOMAIN S : S[i].time <= e.time})
  IN  SubSeq(S, 1, k) \o <<e>> \o SubSeq(S, k + 1, Len(S))

\* The events of a parameter in the order of their times, events of one time in
\* the order of the calls.
RECURSIVE Timeline(_)
Timeline(gain) ==
  IF gain = <<>>
  THEN <<>>
  ELSE InsertEvent(Timeline(SubSeq(gain, 1, Len(gain) - 1)), gain[Len(gain)])

\* A value of the parameter: the fraction n / d, or with a curve in exp the
\* point of that curve (a curve that starts from an exponential approach has
\* no fraction for its points).
Val(a) == [n |-> a.n, d |-> a.d, exp |-> <<>>]

Curve(fn, from, to, tc, t0, t1, at) ==
  [n |-> 0, d |-> 1,
   exp |-> <<[fn |-> fn, from |-> from, to |-> to, tc |-> tc, t0 |-> t0, t1 |-> t1,
              at |-> at]>>]

\* The point at time t of the linear ramp from V0 at T0 to v1 at T1.
Ramp(V0, T0, v1, T1, t) ==
  IF V0.exp = <<>>
  THEN Val(Frac(V0.n * v1.d * (T1 - T0) + (v1.n * V0.d - V0.n * v1.d) * (t - T0),
                V0.d * v1.d * (T1 - T0)))
  ELSE Curve("linearRampToValueAtTime", V0, v1, Num(0), T0, T1, t)

\* The value at time t of a parameter with the timeline S and the default value
\* 0: on the ramp that ends next, else the value the latest event left.
RECURSIVE ValueAt(_, _)
ValueAt(S, t) ==
  LET k == Cardinality({i \in DOMAIN S : S[i].time <= t})
  IN  IF k = 0
      THEN Val(Num(0))
      ELSE IF k < Len(S) /\ S[k + 1].fn = "linearRampToValueAtTime"
      THEN Ramp(ValueAt(SubSeq(S, 1, k), S[k].time), S[k].time, S[k + 1].value,
                S[k + 1].time, t)
      ELSE IF S[k].fn = "setTargetAtTime"
      THEN LET before == ValueAt(SubSeq(S, 1, k - 1), S[k].time)
           IN  IF t = S[k].time
               THEN before
               ELSE Curve("setTargetAtTime", before, S[k].value, S[k].tc, S[k].time,
                          S[k].time, t)
      ELSE Val(S[k].value)

----------------------------------------------------------------------------
(* Voice *)

\* VoiceBase constructor: an idle voice with a silent gain node. A BufferVoice
\* has no source node yet (node is the note its current source node was made
\* for, 0 for undefined) and source holds the start and stop calls made on the
\* source nodes of the voice.
NewVoice ==
  [age |-> EXPIRED, noteId |-> 0, lastNoteOff |-> 0, gain |-> <<>>, disposed |-> 0,
   node |-> 0, source |-> <<>>]

\* A call node.start(time) or node.stop(time) on the source node made for note.
SourceCall(note, fn, time) == [note |-> note, fn |-> fn, time |-> time]

\* The source node made for note has stopped by clock time t.
Stopped(source, note, t) ==
  \E k \in 1 .. Len(source) :
    source[k].note = note /\ source[k].fn = "stop" /\ source[k].time <= t

\* node.stop(time) at clock time t on the source node made for note: the last
\* call is the one applied, unless the node has stopped before the call.
SetStop(source, note, time, t) ==
  IF Stopped(source, note, t)
  THEN source
  ELSE Append(SelectSeq(source, LAMBDA e : ~(e.note = note /\ e.fn = "stop")),
              SourceCall(note, "stop", time))

\* BufferVoice.noteOn at clock time t before super.noteOn: the previous source
\* node is stopped at once, the factory's node is started at the delayed start
\* now and kept as this.node.
Sourced(voice, noteId, t, now) ==
  [voice EXCEPT
     !.node = noteId,
     !.source = Append(IF voice.node # 0 THEN SetStop(@, voice.node, 0, t) ELSE @,
                       SourceCall(noteId, "start", now))]

\* The waveform checks of OscillatorVoice.noteOn and UnisonVoice.noteOn.
InvalidWaveform(k, params) ==
  /\ k \in {"oscillator", "unison"}
  /\ \/ params.periodicWave /\ params.type # "custom"
     \/ ~params.periodicWave /\ params.type = "custom"

\* The calls a subclass makes before VoiceBase.noteOn: the unison spread, then
\* (past the waveform checks) the oscillator frequency.
PreCalls(k, v, frequency, noteId, params, now) ==
  (IF k = "unison"
   THEN <<Call(v, "spread", "setValueAtTime", params.spread, now, Num(0), noteId)>>
   ELSE <<>>)
  \o (IF InvalidWaveform(k, params)
      THEN <<>>
      ELSE <<Call(v, "frequency", "setValueAtTime", Num(frequency), now, Num(0),
                  noteId)>>)

\* The attack and decay schedule with the ramp and the decay at the start time.
AttackCallsNoAttackTime(v, velocity, noteId, params, now) ==
  << Call(v, "gain", "setValueAtTime", Num(0), now, Num(0), noteId),
     Call(v, "gain", "linearRampToValueAtTime", Num(velocity), now, Num(0), noteId),
     Call(v, "gain", "setTargetAtTime", Mul(Num(velocity), params.sustainLevel),
          now, Mul(Num(params.decayTime), TIME_CONSTANT), noteId) >>

\* The attack and decay schedule of VoiceBase.noteOn.
AttackCalls(v, velocity, noteId, params, now) ==
  << Call(v, "gain", "setValueAtTime", Num(0), now, Num(0), noteId),
     Call(v, "gain", "linearRampToValueAtTime", Num(velocity),
          now + params.attackTime, Num(0), noteId),
     Call(v, "gain", "setTargetAtTime", Mul(Num(velocity), params.sustainLevel),
          now + params.attackTime, Mul(Num(params.decayTime), TIME_CONSTANT),
          noteId) >>

\* A trigger that does not keep its closure as lastNoteOff.
TriggeredNoLastNoteOff(voice, v, velocity, noteId, params, now) ==
  [voice EXCEPT !.age = 0, !.noteId = noteId,
                !.gain = @ \o AttackCalls(v, velocity, noteId, params, now)]

\* VoiceBase.noteOn: the voice after the trigger.
Triggered(voice, v, velocity, noteId, params, now) ==
  [voice EXCEPT !.age = 0, !.noteId = noteId, !.lastNoteOff = noteId,
                !.gain = @ \o AttackCalls(v, velocity, noteId, params, now)]

\* What the noteOff closure captures.
Closure(v, velocity, params, now) ==
  [voice |-> v, now |-> now, attackTime |-> params.attackTime,
   velocity |-> velocity, releaseTime |-> params.releaseTime,
   audioDelay |-> params.audioDelay]

\* voice.noteOn(frequency, velocity, noteId, params) of the synth's voice class on
\* heap h at clock time t: the heap after it, the calls made, the closure and the
\* outcome.
VoiceNoteOn(k, h, v, frequency, velocity, noteId, params, t) ==
  LET now == t + params.audioDelay
      pre == PreCalls(k, v, frequency, noteId, params, now)
  IN  IF InvalidWaveform(k, params)
      THEN [heap |-> h, calls |-> pre, outcome |-> "InvalidWaveform"]
      ELSE [heap |-> [h EXCEPT ![v] =
                        Triggered(IF k = "buffer" THEN Sourced(@, noteId, t, now) ELSE @,
                                  v, velocity, noteId, params, now)],
            calls |-> pre \o AttackCalls(v, velocity, noteId, params, now),
            outcome |-> "ok"]

\* An ownership check that only tests that the voice plays a note.
OwnsIfPlaying(voice, noteId) == voice.noteId > 0

\* The ownership check left out.
OwnsAlways(voice, noteId) == TRUE

\* The ownership check of the noteOff closure.
Owns(voice, noteId) == voice.noteId = noteId

\* The ramp hold value with the velocity left out.
HoldValueNoVelocity(c, then) == Div(Num(then - c.now), Num(c.attackTime))

\* The ramp hold value the closure computes.
HoldValue(c, then) ==
  Div(Mul(Num(c.velocity), Num(then - c.now)), Num(c.attackTime))

\* Whether the closure applies the ramp hold correction.
NeedsHold(c, then) == then < c.now + c.attackTime

\* A noteOff that does not reset noteId.
ReleasedKeepsNoteId(voice, timeline) ==
  [voice EXCEPT !.age = EXPIRED, !.gain = timeline]

\* The voice after a completed noteOff: timeline is what the cancel kept and
\* what the closure then scheduled.
Released(voice, timeline) ==
  [voice EXCEPT !.age = EXPIRED, !.noteId = -1, !.gain = timeline]

\* The noteOff closure that captured noteId, called on heap h at clock time then.
\* AudioParam.setValueAtTime takes a float: a non-finite value is a TypeError,
\* which leaves the closure after the cancel and before noteId is reset.
NoteOffClosure(h, cl, noteId, then) ==
  LET c == cl[noteId]
      v == c.voice
      cancel == Call(v, "gain", "cancelScheduledValues", Num(0), then, Num(0), noteId)
      hold == Call(v, "gain", "setValueAtTime", HoldValue(c, then), then, Num(0),
                   noteId)
      release == Call(v, "gain", "setTargetAtTime", Num(0), then,
                      Mul(Num(c.releaseTime), TIME_CONSTANT), noteId)
      kept == cancelScheduledValues(h[v].gain, then)
  IN  IF ~Owns(h[v], noteId)
      THEN [heap |-> h, calls |-> <<>>, outcome |-> "ignored"]
      ELSE IF NeedsHold(c, then) /\ ~Finite(HoldValue(c, then))
      THEN [heap |-> [h EXCEPT ![v].age = EXPIRED, ![v].gain = kept],
            calls |-> <<cancel>>, outcome |-> "TypeError"]
      ELSE LET tail == IF NeedsHold(c, then) THEN <<hold, release>> ELSE <<release>>
           IN  [heap |-> [h EXCEPT ![v] = Released(@, kept \o tail)],
                calls |-> <<cancel>> \o tail, outcome |-> "released"]

\* The closure BufferVoice.noteOn returns: the noteOff closure of VoiceBase,
\* then node.stop on the source node of its note, whatever the ownership check
\* said; an error of the former leaves the closure before the stop.
BufferNoteOff(h, cl, noteId, then) ==
  LET c == cl[noteId]
      r == NoteOffClosure(h, cl, noteId, then)
  IN  IF r.outcome = "TypeError"
      THEN r
      ELSE [r EXCEPT !.heap[c.voice].source =
                       SetStop(@, noteId, then + c.audioDelay + c.releaseTime * 3,
                               then)]

\* dispose(): stops the oscillator of the voice; BufferVoice.dispose() stops the
\* current source node, if there is one.
Dispose(voice) ==
  [voice EXCEPT !.disposed = @ + 1,
                !.source = IF kind = "buffer" /\ voice.node # 0
                           THEN SetStop(@, voice.node, 0, currentTime)
                           ELSE @]

----------------------------------------------------------------------------
(* Synth *)

\* The numbers passed to setPolyphony, in halves so that 1.5 is one of them.
JsNum(twice) == [kind |-> "finite", twice |-> twice]

Infinity == [kind |-> "Infinity", twice |-> 0]

NaN == [kind |-> "NaN", twice |-> 0]

PolyphonyInputs ==
  {JsNum(2 * n) : n \in -1 .. MaxPolyphony}
    \cup {JsNum(2 * MaxPolyphony - 1), Infinity, NaN}

\* The guard of setPolyphony without its isNaN test.
InvalidPolyphonyNoNaN(m) ==
  \/ m.kind = "finite" /\ m.twice < 0
  \/ m.kind = "Infinity"

\* maxPolyphony < 0 || maxPolyphony === Infinity || isNaN(maxPolyphony)
InvalidPolyphony(m) ==
  \/ m.kind = "finite" /\ m.twice < 0
  \/ m.kind = "Infinity"
  \/ m.kind = "NaN"

\* The pop loop taking voices from the front of the pool (shift for pop).
RECURSIVE PopLoopShift(_, _, _)
PopLoopShift(vs, h, m) ==
  IF 2 * Len(vs) > m.twice
  THEN PopLoopShift(SubSeq(vs, 2, Len(vs)), [h EXCEPT ![vs[1]] = Dispose(@)], m)
  ELSE [voices |-> vs, heap |-> h]

\* The pop loop disposing of the last voice and leaving it in the pool.
PopLoopDisposeOnly(vs, h, m) ==
  IF 2 * Len(vs) > m.twice
  THEN [voices |-> vs, heap |-> [h EXCEPT ![vs[Len(vs)]] = Dispose(@)]]
  ELSE [voices |-> vs, heap |-> h]

\* while (this.voices.length > maxPolyphony) this.voices.pop()!.dispose();
RECURSIVE PopLoop(_, _, _)
PopLoop(vs, h, m) ==
  IF 2 * Len(vs) > m.twice
  THEN PopLoop(SubSeq(vs, 1, Len(vs) - 1),
               [h EXCEPT ![vs[Len(vs)]] = Dispose(@)], m)
  ELSE [voices |-> vs, heap |-> h]

\* The push loop as a single push.
PushLoopOnce(vs, h, m) ==
  IF 2 * Len(vs) < m.twice
  THEN [voices |-> Append(vs, Len(h) + 1), heap |-> Append(h, NewVoice)]
  ELSE [voices |-> vs, heap |-> h]

\* while (this.voices.length < maxPolyphony) this.voices.push(this._newVoice());
RECURSIVE PushLoop(_, _, _)
PushLoop(vs, h, m) ==
  IF 2 * Len(vs) < m.twice
  THEN PushLoop(Append(vs, Len(h) + 1), Append(h, NewVoice), m)
  ELSE [voices |-> vs, heap |-> h]

\* The argument recorded for a call that takes no number.
NoArg == [kind |-> "none", twice |-> 0]

\* The record of a call: its outcome, the note and voice it was about, the
\* AudioParam calls it made, the clock time, and whether the call before it was a
\* call of the same operation at the same clock time.
Ret(op, outcome, id, voice, calls) ==
  [op |-> op, outcome |-> outcome, id |-> id, voice |-> voice, calls |-> calls,
   time |-> currentTime, repeat |-> (ret.op = op /\ ret.time = currentTime),
   arg |-> NoArg]

\* The allocation loop with >= for >: the last of the oldest voices is kept.
RECURSIVE AllocateLastWins(_, _, _, _)
AllocateLastWins(vs, h, i, oldestVoice) ==
  IF i > Len(vs)
  THEN [heap |-> h, oldestVoice |-> oldestVoice]
  ELSE LET v  == vs[i]
           h1 == [h EXCEPT ![v].age = @ + 1]
       IN  AllocateLastWins(vs, h1, i + 1,
                            IF oldestVoice = 0 \/ h1[v].age >= h1[oldestVoice].age
                            THEN v
                            ELSE oldestVoice)

\* The allocation loop with its comparison reversed: the youngest voice is kept.
RECURSIVE AllocateYoungest(_, _, _, _)
AllocateYoungest(vs, h, i, oldestVoice) ==
  IF i > Len(vs)
  THEN [heap |-> h, oldestVoice |-> oldestVoice]
  ELSE LET v  == vs[i]
           h1 == [h EXCEPT ![v].age = @ + 1]
       IN  AllocateYoungest(vs, h1, i + 1,
                            IF oldestVoice = 0 \/ h1[v].age < h1[oldestVoice].age
                            THEN v ELSE oldestVoice)

\* The allocation loop of Synth.noteOn from pool index i on: every voice is aged,
\* and the first voice of the greatest age is kept (0: none).
RECURSIVE Allocate(_, _, _, _)
Allocate(vs, h, i, oldestVoice) ==
  IF i > Len(vs)
  THEN [heap |-> h, oldestVoice |-> oldestVoice]
  ELSE LET v  == vs[i]
           h1 == [h EXCEPT ![v].age = @ + 1]
       IN  Allocate(vs, h1, i + 1,
                    IF oldestVoice = 0 \/ h1[v].age > h1[oldestVoice].age
                    THEN v ELSE oldestVoice)

\* The loop of Synth.allNotesOff ending after the first lastNoteOff it calls.
RECURSIVE AllNotesOffLoopBreaks(_, _, _, _, _, _)
AllNotesOffLoopBreaks(vs, h, cl, i, calls, t) ==
  IF i > Len(vs)
  THEN [heap |-> h, calls |-> calls, outcome |-> "ok"]
  ELSE IF h[vs[i]].lastNoteOff = 0
  THEN AllNotesOffLoopBreaks(vs, h, cl, i + 1, calls, t)
  ELSE LET r == NoteOffClosure(h, cl, h[vs[i]].lastNoteOff, t)
       IN  [heap |-> r.heap, calls |-> calls \o r.calls,
            outcome |-> IF r.outcome = "TypeError" THEN "TypeError" ELSE "ok"]

\* The loop of Synth.allNotesOff from pool index i on; an exception of a closure
\* ends it.
RECURSIVE AllNotesOffLoop(_, _, _, _, _, _)
AllNotesOffLoop(vs, h, cl, i, calls, t) ==
  IF i > Len(vs)
  THEN [heap |-> h, calls |-> calls, outcome |-> "ok"]
  ELSE IF h[vs[i]].lastNoteOff = 0
  THEN AllNotesOffLoop(vs, h, cl, i + 1, calls, t)
  ELSE LET r == NoteOffClosure(h, cl, h[vs[i]].lastNoteOff, t)
       IN  IF r.outcome = "TypeError"
           THEN [heap |-> r.heap, calls |-> calls \o r.calls, outcome |-> "TypeError"]
           ELSE AllNotesOffLoop(vs, r.heap, cl, i + 1, calls \o r.calls, t)

\* Rounds of Synth.noteOn a voice has been aged through since its age was set.
Rounds(voice) == IF voice.age >= EXPIRED THEN voice.age - EXPIRED ELSE voice.age

\* new Synth(audioContext, destination): no voices, no parameters.
Init ==
  /\ kind = "oscillator"
  /\ voices = <<>>
  /\ heap = <<>>
  /\ voiceParams = undefined
  /\ NOTE_ID = 1
  /\ VOICE_ID = 1
  /\ currentTime = 0
  /\ closures = <<>>
  /\ ret = [op |-> "new", outcome |-> "ok", id |-> 0, voice |-> 0, calls |-> <<>>,
            time |-> 0, repeat |-> FALSE, arg |-> NoArg]
  /\ run = <<>>
  /\ other = [voices |-> <<>>, voiceParams |-> undefined]

\* get maxPolyphony()
maxPolyphony == Len(voices)

\* synth.setPolyphony(m), synth.maxPolyphony = m
setPolyphony(m) ==
  /\ IF InvalidPolyphony(m)
     THEN /\ ret' = [Ret("setPolyphony", "InvalidPolyphony", 0, 0, <<>>)
                      EXCEPT !.arg = m]
          /\ UNCHANGED <<voices, heap, VOICE_ID>>
     ELSE LET popped == PopLoop(voices, heap, m)
              pushed == PushLoop(popped.voices, popped.heap, m)
          IN  /\ Len(pushed.heap) <= MaxVoices
              /\ voices' = pushed.voices
              /\ heap' = pushed.heap
              /\ VOICE_ID' = Len(pushed.heap) + 1
              /\ ret' = [Ret("setPolyphony", "ok", 0, 0, <<>>) EXCEPT !.arg = m]
  /\ run' = <<>>
  /\ UNCHANGED <<kind, voiceParams, NOTE_ID, currentTime, closures, other>>

\* synth.voiceParams = p
setVoiceParams(p) ==
  /\ p # voiceParams
  /\ voiceParams' = p
  /\ UNCHANGED <<kind, voices, heap, NOTE_ID, VOICE_ID, currentTime, closures,
                 ret, run, other>>

\* A note id counter that is not incremented.
NextNoteIdStuck(n) == n

\* NOTE_ID++
NextNoteId(n) == n + 1

\* return () => {}: the callback of a note dropped on an empty pool, kept under
\* the id 0 that no note has; it belongs to no voice and captures nothing.
EmptyCallback ==
  [voice |-> 0, now |-> 0, attackTime |-> 0, velocity |-> 0, releaseTime |-> 0,
   audioDelay |-> 0]

\* A callback that releases every voice in place of the empty callback.
NoOpPanics(h) ==
  [heap |-> [v \in DOMAIN h |-> [h[v] EXCEPT !.age = EXPIRED, !.noteId = -1]],
   calls |-> <<>>, outcome |-> "noop"]

\* A call of () => {} on heap h.
NoOp(h) == [heap |-> h, calls |-> <<>>, outcome |-> "noop"]

\* The closure that voice.noteOn of the synth's voice class returned for noteId,
\* called on heap h at clock time then.
ReturnedClosure(h, cl, noteId, then) ==
  IF kind = "buffer"
  THEN BufferNoteOff(h, cl, noteId, then)
  ELSE NoteOffClosure(h, cl, noteId, then)

\* The closures cl cut down to those of the notes in ids.
Restrict(cl, ids) == [id \in DOMAIN cl \cap ids |-> cl[id]]

\* The closures that the voices of heap h keep as lastNoteOff.
LastNoteOffs(h) == {h[v].lastNoteOff : v \in DOMAIN h} \ {0}

\* synth.noteOn(frequency, velocity); held: the notes whose noteOff callbacks the
\* caller still holds on to, with 0 in it when the caller holds on to the
\* callback of a note dropped on an empty pool.
noteOn(frequency, velocity, held) ==
  LET a == Allocate(voices, heap, 1, 0)
  IN  IF a.oldestVoice = 0
      THEN /\ ret' = Ret("noteOn", "noop", 0, 0, <<>>)
           /\ run' = <<>>
           /\ closures' = IF 0 \in held
                          THEN (0 :> EmptyCallback) @@ closures
                          ELSE closures
           /\ UNCHANGED <<kind, voices, heap, voiceParams, NOTE_ID, VOICE_ID,
                          currentTime, other>>
      ELSE IF ~voiceParams.defined
      THEN /\ heap' = a.heap
           /\ ret' = Ret("noteOn", "MissingVoiceParams", 0, a.oldestVoice, <<>>)
           /\ run' = <<>>
           /\ UNCHANGED <<kind, voices, voiceParams, NOTE_ID, VOICE_ID,
                          currentTime, closures, other>>
      ELSE LET r == VoiceNoteOn(kind, a.heap, a.oldestVoice, frequency, velocity,
                                NOTE_ID, voiceParams, currentTime)
           IN  /\ heap' = r.heap
               /\ NOTE_ID' = NextNoteId(NOTE_ID)
               /\ closures' =
                    IF r.outcome = "ok"
                    THEN (NOTE_ID :> Closure(a.oldestVoice, velocity, voiceParams,
                                             currentTime + voiceParams.audioDelay))
                           @@ Restrict(closures, held \cup LastNoteOffs(r.heap))
                    ELSE closures
               /\ ret' = Ret("noteOn", r.outcome, NOTE_ID, a.oldestVoice, r.calls)
               /\ run' = IF r.outcome = "ok"
                         THEN Append(run, [voice |-> a.oldestVoice, id |-> NOTE_ID])
                         ELSE <<>>
               /\ UNCHANGED <<kind, voices, voiceParams, VOICE_ID, currentTime,
                              other>>

\* A call of the callback that an earlier noteOn returned: the noteOff closure
\* of note id, or with id = 0 the callback returned on an empty pool.
noteOff(id) ==
  LET r == IF closures[id].voice = 0
           THEN NoOp(heap)
           ELSE ReturnedClosure(heap, closures, id, currentTime)
  IN  /\ heap' = r.heap
      /\ ret' = Ret("noteOff", r.outcome, id, closures[id].voice, r.calls)
      /\ run' = <<>>
      /\ UNCHANGED <<kind, voices, voiceParams, NOTE_ID, VOICE_ID, currentTime,
                     closures, other>>

\* synth.allNotesOff()
allNotesOff ==
  LET r == AllNotesOffLoop(voices, heap, closures, 1, <<>>, currentTime)
  IN  /\ heap' = r.heap
      /\ ret' = Ret("allNotesOff", r.outcome, 0, 0, r.calls)
      /\ run' = <<>>
      /\ UNCHANGED <<kind, voices, voiceParams, NOTE_ID, VOICE_ID, currentTime,
                     closures, other>>

\* The caller turns to the other Synth instance: its pool and parameters become
\* the ones the calls are made on. The voice objects, the audio clock and the
\* module-level counters are those of both.
select ==
  /\ voices' = other.voices
  /\ voiceParams' = other.voiceParams
  /\ other' = [voices |-> voices, voiceParams |-> voiceParams]
  /\ ret' = Ret("select", "ok", 0, 0, <<>>)
  /\ run' = <<>>
  /\ UNCHANGED <<kind, heap, NOTE_ID, VOICE_ID, currentTime, closures>>

\* The audio clock advances.
Tick ==
  /\ currentTime < MaxTime
  /\ currentTime' = currentTime + 1
  /\ UNCHANGED <<kind, voices, heap, voiceParams, NOTE_ID, VOICE_ID, closures,
                 ret, run, other>>

\* The pool can be aged through one more round within MaxRounds.
RoundsLeft == \A i \in 1 .. Len(voices) : Rounds(heap[voices[i]]) < MaxRounds

SetPolyphony == \E m \in PolyphonyInputs : setPolyphony(m)

SetVoiceParams == \E p \in PoolParams : setVoiceParams(p)

NoteOn ==
  /\ NOTE_ID <= MaxNotes
  /\ RoundsLeft
  /\ \E frequency \in Frequencies, velocity \in Velocities :
       noteOn(frequency, velocity, DOMAIN closures)

NoteOff == \E id \in DOMAIN closures : noteOff(id)

AllNotesOff == allNotesOff

\* The pool: every operation of the synth at one instant of the audio clock.
Next ==
  \/ SetPolyphony
  \/ SetVoiceParams
  \/ NoteOn
  \/ NoteOff
  \/ AllNotesOff

Spec == Init /\ [][Next]_vars

----------------------------------------------------------------------------
(* The envelope: one voice, its notes and the audio clock *)

\* Valid parameter records: no audio delay, the defaults, and a zero attack.
EnvParams ==
  { Params(0, 2, "triangle", FALSE),
    defaultParams,
    Params(1, 0, "triangle", FALSE) }

EnvVelocities == {1, 2}

\* synth.maxPolyphony = 1 on the new synth
EnvSetPolyphony == voices = <<>> /\ setPolyphony(JsNum(2))

EnvSetVoiceParams == \E p \in EnvParams : setVoiceParams(p)

EnvNoteOn ==
  /\ NOTE_ID <= MaxEnvNotes
  /\ RoundsLeft
  /\ \E frequency \in Frequencies, velocity \in EnvVelocities :
       noteOn(frequency, velocity, DOMAIN closures)

NextEnv ==
  \/ EnvSetPolyphony
  \/ EnvSetVoiceParams
  \/ EnvNoteOn
  \/ NoteOff
  \/ Tick

SpecEnv == Init /\ [][NextEnv]_vars

----------------------------------------------------------------------------
(* The voice classes: a pool of Voice, UnisonVoice or BufferVoice objects *)

\* The voice classes a pool is made of.
BufferKinds == {"oscillator", "unison", "buffer"}

\* Valid parameter records with an attack: the defaults, and no audio delay.
BufferParams == {defaultParams, Params(0, 2, "triangle", FALSE)}

\* A new synth whose _newVoice() makes voices of one of the classes.
InitBuffer ==
  /\ kind \in BufferKinds
  /\ voices = <<>>
  /\ heap = <<>>
  /\ voiceParams = undefined
  /\ NOTE_ID = 1
  /\ VOICE_ID = 1
  /\ currentTime = 0
  /\ closures = <<>>
  /\ ret = [op |-> "new", outcome |-> "ok", id |-> 0, voice |-> 0, calls |-> <<>>,
            time |-> 0, repeat |-> FALSE, arg |-> NoArg]
  /\ run = <<>>
  /\ other = [voices |-> <<>>, voiceParams |-> undefined]

BufferSetPolyphony == \E n \in 0 .. MaxPolyphony : setPolyphony(JsNum(2 * n))

BufferSetVoiceParams == \E p \in BufferParams : setVoiceParams(p)

BufferNoteOn ==
  /\ NOTE_ID <= MaxBufferNotes
  /\ RoundsLeft
  /\ \E frequency \in Frequencies, velocity \in Velocities :
       noteOn(frequency, velocity, DOMAIN closures)

BufferTick ==
  /\ currentTime < MaxBufferTime
  /\ Tick

NextBuffer ==
  \/ BufferSetPolyphony
  \/ BufferSetVoiceParams
  \/ BufferNoteOn
  \/ NoteOff
  \/ AllNotesOff
  \/ BufferTick

SpecBuffer == InitBuffer /\ [][NextBuffer]_vars

----------------------------------------------------------------------------
(* The waveform checks: a Synth or a UnisonSynth, valid and invalid waveforms *)

\* Synth._newVoice() makes a Voice, UnisonSynth._newVoice() a UnisonVoice.
Kinds == {"oscillator", "unison"}

\* A triangle wave, 'custom' without its periodic wave, a periodic wave without
\* 'custom', and 'custom' with its periodic wave.
WaveParams ==
  { defaultParams,
    Params(1, 2, "custom", FALSE),
    Params(1, 2, "triangle", TRUE),
    Params(1, 2, "custom", TRUE) }

\* new Synth(audioContext, destination) or new UnisonSynth(audioContext,
\* destination)
InitWave ==
  /\ kind \in Kinds
  /\ voices = <<>>
  /\ heap = <<>>
  /\ voiceParams = undefined
  /\ NOTE_ID = 1
  /\ VOICE_ID = 1
  /\ currentTime = 0
  /\ closures = <<>>
  /\ ret = [op |-> "new", outcome |-> "ok", id |-> 0, voice |-> 0, calls |-> <<>>,
            time |-> 0, repeat |-> FALSE, arg |-> NoArg]
  /\ run = <<>>
  /\ other = [voices |-> <<>>, voiceParams |-> undefined]

\* synth.maxPolyphony = 1 or 2 on the new synth
WaveSetPolyphony == voices = <<>> /\ \E n \in 1 .. 2 : setPolyphony(JsNum(2 * n))

WaveSetVoiceParams == \E p \in WaveParams : setVoiceParams(p)

WaveNoteOn ==
  /\ NOTE_ID <= MaxWaveNotes
  /\ RoundsLeft
  /\ \E frequency \in Frequencies, velocity \in Velocities :
       noteOn(frequency, velocity, DOMAIN closures)

NextWave ==
  \/ WaveSetPolyphony
  \/ WaveSetVoiceParams
  \/ WaveNoteOn
  \/ NoteOff

SpecWave == InitWave /\ [][NextWave]_vars

----------------------------------------------------------------------------
(* Two synths on one audio context: every operation, the clock, and a caller
   who keeps every callback, those of dropped notes included *)

TwoSelect == select

\* synth.maxPolyphony = 0, 1 or 2
TwoSetPolyphony == \E n \in 0 .. 2 : setPolyphony(JsNum(2 * n))

TwoSetVoiceParams == setVoiceParams(defaultParams)

TwoNoteOn ==
  /\ NOTE_ID <= MaxTwoNotes
  /\ RoundsLeft
  /\ \E frequency \in Frequencies, velocity \in Velocities :
       noteOn(frequency, velocity, DOMAIN closures \cup {0})

TwoTick == currentTime < MaxTwoTime /\ Tick

NextTwo ==
  \/ TwoSelect
  \/ TwoSetPolyphony
  \/ TwoSetVoiceParams
  \/ TwoNoteOn
  \/ NoteOff
  \/ AllNotesOff
  \/ TwoTick

SpecTwo == Init /\ [][NextTwo]_vars

----------------------------------------------------------------------------
(* A held note: a player who holds the first note, plays and releases the
   later ones one at a time, and never plays more notes than there are voices *)

Idle(voice) == voice.noteId \in {0, -1}

Playing(voice) == voice.noteId > 0

\* synth.maxPolyphony = 2 on the new synth
HeldSetPolyphony == voices = <<>> /\ setPolyphony(JsNum(4))

\* synth.voiceParams = defaultParams()
HeldSetVoiceParams == ~voiceParams.defined /\ setVoiceParams(defaultParams)

\* A note is played while a voice is free; the player holds on to the callback
\* of the first note and of the note played.
HeldNoteOn ==
  /\ voiceParams.defined
  /\ \E i \in 1 .. Len(voices) : Idle(heap[voices[i]])
  /\ NOTE_ID <= EXPIRED + 2
  /\ \E frequency \in Frequencies, velocity \in Velocities :
       noteOn(frequency, velocity, {1})

\* The latest note, unless it is the first one, is released.
HeldNoteOff ==
  /\ NOTE_ID - 1 \in DOMAIN closures
  /\ NOTE_ID - 1 > 1
  /\ noteOff(NOTE_ID - 1)

NextHeld ==
  \/ HeldSetPolyphony
  \/ HeldSetVoiceParams
  \/ HeldNoteOn
  \/ HeldNoteOff

SpecHeld == Init /\ [][NextHeld]_vars

----------------------------------------------------------------------------
(* Claims *)

PoolVoices == {voices[i] : i \in 1 .. Len(voices)}

\* age, noteId and lastNoteOff of voice v are the same before and after the step.
SameVoice(v) ==
  /\ heap'[v].age = heap[v].age
  /\ heap'[v].noteId = heap[v].noteId
  /\ heap'[v].lastNoteOff = heap[v].lastNoteOff

\* A call that puts an event on a timeline (cancelScheduledValues puts none).
Schedules(call) == call.fn # "cancelScheduledValues"

SchedulesNothing(calls) == \A k \in 1 .. Len(calls) : ~Schedules(calls[k])

\* The step is a call of operation op: every step but an assignment of
\* voiceParams and a tick of the clock is a call, and ret' is its record.
Called(op) == ret'.op = op /\ voiceParams' = voiceParams /\ currentTime' = currentTime

\* A step that is a call of Synth.noteOn which triggered a voice.
NoteOnOk == Called("noteOn") /\ ret'.outcome = "ok"

\* C1: with n voices in the pool, the first n of the successful noteOn calls made
\* in a row trigger n different voices, the call after them triggers the voice
\* that the first of them triggered, and right after that call the voices
\* triggered by calls 2..n still hold the note ids those calls gave them.
C1_OldestVoiceStolen ==
  LET n == Len(voices)
      m == IF Len(run) < n THEN Len(run) ELSE n
  IN  /\ \A i, j \in 1 .. m : i # j => run[i].voice # run[j].voice
      /\ Len(run) > n => run[n + 1].voice = run[1].voice
      /\ Len(run) = n + 1 =>
           \A i \in 2 .. n : heap[run[i].voice].noteId = run[i].id

\* Two voices, two notes in a row, and a third which stole a voice.
C1_Witness == Len(voices) = 2 /\ Len(run) = 3

\* C2: whenever the pool holds an idle voice and a playing voice, a successful
\* Synth.noteOn triggers a voice that was idle, however long a playing voice has
\* been held.
C2_IdleVoicePreferred ==
  [][(/\ NoteOnOk
      /\ \E v \in PoolVoices : Idle(heap[v])
      /\ \E v \in PoolVoices : Playing(heap[v]))
     => Idle(heap[ret'.voice])]_vars

\* C3: a call of a noteOff closure whose note id is not the current noteId of its
\* voice changes age, noteId, lastNoteOff and gain timeline of no voice and makes
\* no AudioParam call.
C3_StaleNoteOffIsNoOp ==
  [][\A id \in DOMAIN closures \ {0} :
       (/\ Called("noteOff")
        /\ ret'.id = id
        /\ heap[closures[id].voice].noteId # id)
       => /\ \A v \in DOMAIN heap : SameVoice(v) /\ heap'[v].gain = heap[v].gain
          /\ DOMAIN heap' = DOMAIN heap
          /\ ret'.calls = <<>>]_vars

\* The closure of a note whose voice has been stolen by a later note was called.
C3_Witness ==
  /\ ret.op = "noteOff"
  /\ ret.outcome = "ignored"
  /\ heap[ret.voice].noteId > ret.id

\* C4: an allNotesOff called right after an allNotesOff changes age and noteId of
\* no voice, leaves every gain timeline as it is and schedules no event.
C4_AllNotesOffIdempotent ==
  [][(/\ ret.op = "allNotesOff"
      /\ Called("allNotesOff")
      /\ ret'.repeat)
     => /\ \A v \in DOMAIN heap : SameVoice(v) /\ heap'[v].gain = heap[v].gain
        /\ SchedulesNothing(ret'.calls)]_vars

\* A second allNotesOff in a row, on a pool with a voice that a note was released
\* from.
C4_Witness ==
  /\ ret.op = "allNotesOff"
  /\ ret.repeat
  /\ \E v \in PoolVoices : heap[v].noteId = -1

\* C5: after an allNotesOff that returned, no voice of the pool has a noteId > 0
\* and every voice of the pool has an age of at least EXPIRED.
C5_AllReleased ==
  (ret.op = "allNotesOff" /\ ret.outcome = "ok")
  => \A v \in PoolVoices : heap[v].noteId <= 0 /\ heap[v].age >= EXPIRED

\* An allNotesOff that released two voices.
C5_Witness ==
  /\ ret.op = "allNotesOff"
  /\ ret.outcome = "ok"
  /\ \E k \in 1 .. Len(ret.calls) : Schedules(ret.calls[k])
  /\ Len(voices) = 2
  /\ \A v \in PoolVoices : heap[v].noteId = -1 /\ heap[v].lastNoteOff # 0

\* The closure of the noteOff that the last call was, and the value on the
\* attack ramp at the time of that call.
Off == closures[ret.id]

Interpolated == Frac(Off.velocity * (ret.time - Off.now), Off.attackTime)

\* The last call was a noteOff that passed the ownership check before the end
\* of the attack.
OffInAttack ==
  /\ ret.op = "noteOff"
  /\ ret.outcome # "ignored"
  /\ ret.time < Off.now + Off.attackTime

SetsGain(value) ==
  \E k \in 1 .. Len(ret.calls) :
    /\ ret.calls[k].fn = "setValueAtTime"
    /\ ret.calls[k].param = "gain"
    /\ ret.calls[k].time = ret.time
    /\ ret.calls[k].value = value

C7_ReleaseContinuous ==
  [][\A id \in DOMAIN closures \ {0} :
       (/\ Called("noteOff")
        /\ ret'.id = id
        /\ ret'.outcome # "ignored"
        /\ currentTime >= closures[id].now + closures[id].attackTime)
       => ValueAt(Timeline(heap'[closures[id].voice].gain), currentTime)
            = ValueAt(Timeline(heap[closures[id].voice].gain), currentTime)]_vars

\* C8: once a note has been triggered on a voice with the delayed start t0, the
\* gain timeline of the voice holds no event of another note later than t0.
C8_TriggerSupersedes ==
  (ret.op = "noteOn" /\ ret.outcome = "ok")
  => \A k \in 1 .. Len(heap[ret.voice].gain) :
       LET e == heap[ret.voice].gain[k]
       IN  e.note # ret.id => e.time <= closures[ret.id].now

\* C9: Synth.noteOn called while voiceParams is unset fails with the missing
\* parameters error, whatever the pool.
C9_NoteOnWithoutParamsFails ==
  (ret.op = "noteOn" /\ ~voiceParams.defined)
  => ret.outcome = "MissingVoiceParams"

\* C10: a Synth.noteOn that fails because voiceParams is unset changes age,
\* noteId and lastNoteOff of no voice and leaves the note id counter alone.
C10_FailedNoteOnMutatesNothing ==
  [][(Called("noteOn") /\ ret'.outcome = "MissingVoiceParams")
     => /\ \A v \in DOMAIN heap : SameVoice(v)
        /\ NOTE_ID' = NOTE_ID]_vars

\* C11: a Synth.noteOn that fails with the invalid waveform error has made no
\* AudioParam call (gain, frequency, unison spread), has changed age, noteId,
\* lastNoteOff and gain timeline of no voice and has issued no note id, with
\* the oscillator voice and with the unison voice.
C11_InvalidWaveformFailsFast ==
  [][(Called("noteOn") /\ ret'.outcome = "InvalidWaveform")
     => /\ ret'.calls = <<>>
        /\ \A v \in DOMAIN heap : SameVoice(v) /\ heap'[v].gain = heap[v].gain
        /\ NOTE_ID' = NOTE_ID]_vars

\* The last call was setPolyphony(n) with n a non-negative integer.
IntegerArg(r) == r.arg.kind = "finite" /\ r.arg.twice >= 0 /\ r.arg.twice % 2 = 0

\* C12: setPolyphony called with a negative number, Infinity or NaN fails with
\* the invalid polyphony error, and the pool and every voice object are after
\* the call what they were before it: none removed, disposed or constructed.
C12_InvalidPolyphonyRejected ==
  [][(/\ Called("setPolyphony")
      /\ \/ ret'.arg.kind \in {"Infinity", "NaN"}
         \/ ret'.arg.kind = "finite" /\ ret'.arg.twice < 0)
     => /\ ret'.outcome = "InvalidPolyphony"
        /\ voices' = voices
        /\ heap' = heap
        /\ VOICE_ID' = VOICE_ID]_vars

\* setPolyphony(NaN) has failed on a pool with a playing voice.
C12_Witness ==
  /\ ret.op = "setPolyphony"
  /\ ret.arg = NaN
  /\ ret.outcome = "InvalidPolyphony"
  /\ \E v \in PoolVoices : heap[v].noteId > 0

\* C13: setPolyphony(n) fails with the invalid polyphony error for every n that
\* is not a non-negative finite integer, positive non-integers included.
C13_NonIntegerPolyphonyRejected ==
  (ret.op = "setPolyphony" /\ ~IntegerArg(ret))
  => ret.outcome = "InvalidPolyphony"

\* C14: after setPolyphony(n) with n a non-negative integer the pool holds n
\* voices and maxPolyphony reads n; when the pool grew, the voices it had are
\* where and what they were, and each appended voice is a newly constructed one
\* with age = EXPIRED, noteId = 0 and no lastNoteOff.
C14_PolyphonySet ==
  [][(Called("setPolyphony") /\ IntegerArg(ret'))
     => /\ ret'.outcome = "ok"
        /\ 2 * Len(voices') = ret'.arg.twice
        /\ 2 * maxPolyphony' = ret'.arg.twice
        /\ Len(voices') >= Len(voices)
            => /\ SubSeq(voices', 1, Len(voices)) = voices
               /\ \A v \in DOMAIN heap : heap'[v] = heap[v]
               /\ \A i \in Len(voices) + 1 .. Len(voices') :
                    /\ voices'[i] \notin DOMAIN heap
                    /\ \A j \in 1 .. i - 1 : voices'[j] # voices'[i]
                    /\ heap'[voices'[i]].age = EXPIRED
                    /\ heap'[voices'[i]].noteId = 0
                    /\ heap'[voices'[i]].lastNoteOff = 0
                    /\ heap'[voices'[i]].gain = <<>>
                    /\ heap'[voices'[i]].disposed = 0]_vars

\* The pool has been grown from one playing voice to two voices.
C14_Witness ==
  /\ ret.op = "setPolyphony"
  /\ ret.arg = JsNum(4)
  /\ Len(voices) = 2
  /\ heap[voices[1]].noteId > 0
  /\ heap[voices[2]].noteId = 0

\* C15: when setPolyphony(n), n a non-negative integer, shrinks a pool of m > n
\* voices, the pool is left with its first n voices in their order, unchanged;
\* the m - n voices behind them are each disposed once and are otherwise
\* unchanged; no voice is ever disposed twice, and a voice is disposed exactly
\* when it has left the pool.
C15_TrailingVoicesDisposed ==
  [][(/\ Called("setPolyphony")
      /\ IntegerArg(ret')
      /\ 2 * Len(voices) > ret'.arg.twice)
     => LET n == ret'.arg.twice \div 2
        IN  /\ voices' = SubSeq(voices, 1, n)
            /\ DOMAIN heap' = DOMAIN heap
            /\ \A i \in 1 .. n : heap'[voices[i]] = heap[voices[i]]
            /\ \A i \in n + 1 .. Len(voices) :
                 heap'[voices[i]] = [heap[voices[i]] EXCEPT !.disposed = @ + 1]
            /\ \A v \in DOMAIN heap' :
                 heap'[v].disposed = IF v \in PoolVoices' THEN 0 ELSE 1]_vars

\* The pool has been shrunk from two voices to one while its second voice was
\* playing.
C15_Witness ==
  /\ ret.op = "setPolyphony"
  /\ ret.arg = JsNum(2)
  /\ voices = <<1>>
  /\ Len(heap) = 2
  /\ heap[2].disposed = 1
  /\ heap[2].noteId > 0

\* C16: on a pool without voices Synth.noteOn does not fail, changes no voice
\* object, makes no AudioParam call and issues no note id; a call of the
\* callback it returned, at any later time and with the pool grown since,
\* does none of these either.
C16_EmptyPoolNoOp ==
  [][/\ (Called("noteOn") /\ voices = <<>>)
        => /\ ret'.outcome = "noop"
           /\ heap' = heap
           /\ ret'.calls = <<>>
           /\ NOTE_ID' = NOTE_ID
     /\ (Called("noteOff") /\ ret'.id = 0)
        => /\ ret'.outcome = "noop"
           /\ heap' = heap
           /\ ret'.calls = <<>>
           /\ NOTE_ID' = NOTE_ID]_vars

\* The callback of a note dropped on the empty pool has been called after the
\* pool was grown and a voice of it triggered.
C16_Witness ==
  /\ ret.op = "noteOff"
  /\ ret.id = 0
  /\ \E v \in PoolVoices : heap[v].noteId > 0

\* Every voice object of either synth.
AllVoices == DOMAIN heap

\* C17: note ids come from one counter that starts at 1 and is shared by the
\* synths: a successful trigger on either synth gets the value of the counter,
\* which is greater than every id a voice holds or a closure captured and
\* smaller than the counter after the call, and no two voice objects, of one
\* pool or of two, hold the same positive noteId.
C17_NoteIdsUnique ==
  [][/\ NoteOnOk
        => /\ ret'.id = NOTE_ID
           /\ NOTE_ID' > NOTE_ID
           /\ NOTE_ID >= 1
           /\ \A v \in AllVoices : heap[v].noteId < ret'.id
           /\ \A id \in DOMAIN closures : id < ret'.id
     /\ \A v, w \in DOMAIN heap' :
          (v # w /\ heap'[v].noteId > 0) => heap'[v].noteId # heap'[w].noteId
     /\ NOTE_ID' >= NOTE_ID]_vars

\* Each of the two synths has a voice that plays a note.
C17_Witness ==
  /\ \E i \in 1 .. Len(voices) : heap[voices[i]].noteId > 0
  /\ \E i \in 1 .. Len(other.voices) : heap[other.voices[i]].noteId > 0

\* C19: the noteId of a voice changes from a positive k only in a call of the
\* noteOff closure of note k, in an allNotesOff, in a Synth.noteOn that
\* triggers the voice, or in a setPolyphony that disposes the voice; never in
\* another call and never when the clock advances.
C19_NoteHeldUntilReleasedOrStolen ==
  [][\A v \in DOMAIN heap :
       (heap[v].noteId > 0 /\ heap'[v].noteId # heap[v].noteId)
       => \/ /\ Called("noteOff")
             /\ ret'.id = heap[v].noteId
             /\ ret'.outcome = "released"
             /\ heap'[v].noteId = -1
          \/ /\ Called("allNotesOff")
             /\ heap[v].lastNoteOff = heap[v].noteId
             /\ v \in PoolVoices
             /\ heap'[v].noteId = -1
          \/ /\ Called("noteOn")
             /\ ret'.outcome = "ok"
             /\ ret'.voice = v
             /\ heap'[v].noteId = ret'.id
          \/ /\ Called("setPolyphony")
             /\ heap'[v].disposed > heap[v].disposed]_vars

\* A note of a voice outside the pool the calls are made on has been released
\* after the clock advanced.
C19_Witness ==
  /\ ret.op = "noteOff"
  /\ ret.outcome = "released"
  /\ ret.time > closures[ret.id].now - defaultParams.audioDelay
  /\ ret.voice \notin PoolVoices

\* The closures issued by voice v that would pass its ownership check.
Authoritative(v) ==
  {id \in DOMAIN closures \ {0} : closures[id].voice = v /\ Owns(heap[v], id)}

\* C18: of the noteOff closures a voice has issued at most one passes the
\* ownership check: the closure of its latest trigger (its lastNoteOff) while
\* the voice holds a positive noteId, and none when its noteId is 0 or -1.
C18_OneAuthoritativeClosure ==
  \A v \in DOMAIN heap :
    /\ Cardinality(Authoritative(v)) <= 1
    /\ heap[v].noteId > 0 => Authoritative(v) = {heap[v].lastNoteOff}
    /\ heap[v].noteId \in {0, -1} => Authoritative(v) = {}
    /\ heap[v].noteId > 0 \/ heap[v].noteId \in {0, -1}

\* A voice has issued two closures and plays the note of the later one.
C18_Witness ==
  \E id1, id2 \in DOMAIN closures \ {0} :
    /\ id1 < id2
    /\ closures[id1].voice = closures[id2].voice
    /\ heap[closures[id2].voice].noteId = id2

\* C20: a Synth.noteOn on a pool with voices raises the age of every voice of
\* the pool by 1 and selects the first voice of the pool among those of the
\* greatest age; when it succeeds the selected voice has age 0 and the new note
\* id, and every other voice keeps noteId and lastNoteOff.
C20_OldestVoiceSelected ==
  [][(Called("noteOn") /\ voices # <<>>)
     => \E i \in 1 .. Len(voices) :
          /\ ret'.voice = voices[i]
          /\ \A j \in 1 .. Len(voices) : heap[voices[j]].age <= heap[voices[i]].age
          /\ \A j \in 1 .. i - 1 : heap[voices[j]].age < heap[voices[i]].age
          /\ \A j \in 1 .. Len(voices) :
               j # i => /\ heap'[voices[j]].age = heap[voices[j]].age + 1
                        /\ heap'[voices[j]].noteId = heap[voices[j]].noteId
                        /\ heap'[voices[j]].lastNoteOff = heap[voices[j]].lastNoteOff
          /\ IF ret'.outcome = "ok"
             THEN /\ heap'[voices[i]].age = 0
                  /\ heap'[voices[i]].noteId = ret'.id
                  /\ ret'.id = NOTE_ID
             ELSE /\ heap'[voices[i]].age = heap[voices[i]].age + 1
                  /\ heap'[voices[i]].noteId = heap[voices[i]].noteId
          /\ \A v \in DOMAIN heap \ PoolVoices : heap'[v] = heap[v]]_vars

\* Of two voices of the same age the first has been triggered.
C20_Witness ==
  /\ ret.op = "noteOn"
  /\ ret.outcome = "ok"
  /\ Len(voices) = 2
  /\ ret.voice = voices[1]
  /\ heap[voices[1]].age = 0
  /\ heap[voices[2]].age = EXPIRED + 1

\* C21: when every voice of the pool holds a positive noteId, a successful
\* Synth.noteOn triggers the voice that holds the smallest of them.
C21_EarliestTriggeredStolen ==
  [][(NoteOnOk /\ \A v \in PoolVoices : heap[v].noteId > 0)
     => \A v \in PoolVoices : heap[ret'.voice].noteId <= heap[v].noteId]_vars

\* The calls among calls that were made on parameter param.
On(param, calls) == SelectSeq(calls, LAMBDA c : c.param = param)

\* C22: a Synth.noteOn that triggers a voice at clock time now leaves the voice
\* with age 0 and the note id issued, and with t0 = now + audioDelay makes on
\* the gain exactly setValueAtTime(0, t0), linearRampToValueAtTime(velocity,
\* t0 + attackTime), setTargetAtTime(velocity * sustainLevel, t0 + attackTime,
\* decayTime * 0.5), in this order and after the events the timeline had, and
\* on the frequency exactly setValueAtTime(frequency, t0).
C22_TriggerSchedule ==
  [][NoteOnOk
     => \E frequency \in Frequencies, velocity \in EnvVelocities :
          LET v  == ret'.voice
              id == ret'.id
              p  == voiceParams
              t0 == currentTime + p.audioDelay
              E(fn, value, time, tc) ==
                [voice |-> v, param |-> "gain", fn |-> fn, value |-> value,
                 time |-> time, tc |-> tc, note |-> id]
              three ==
                << E("setValueAtTime", Frac(0, 1), t0, Frac(0, 1)),
                   E("linearRampToValueAtTime", Frac(velocity, 1),
                     t0 + p.attackTime, Frac(0, 1)),
                   E("setTargetAtTime",
                     Frac(velocity * p.sustainLevel.n, p.sustainLevel.d),
                     t0 + p.attackTime, Frac(p.decayTime, 2)) >>
          IN  /\ heap'[v].age = 0
              /\ heap'[v].noteId = id
              /\ id = NOTE_ID
              /\ On("gain", ret'.calls) = three
              /\ heap'[v].gain = heap[v].gain \o three
              /\ On("frequency", ret'.calls)
                   = << [voice |-> v, param |-> "frequency", fn |-> "setValueAtTime",
                         value |-> Frac(frequency, 1), time |-> t0,
                         tc |-> Frac(0, 1), note |-> id] >>
              /\ Len(ret'.calls) = 4
              /\ closures'[id].velocity = velocity]_vars

\* A note of velocity 2 has been triggered at clock time 1 with an audio delay
\* of 1 and an attack time of 2.
C22_Witness ==
  /\ ret.op = "noteOn"
  /\ ret.outcome = "ok"
  /\ ret.time = 1
  /\ closures[ret.id].velocity = 2
  /\ closures[ret.id].now = 2
  /\ closures[ret.id].attackTime = 2
  /\ Len(heap[ret.voice].gain) = 3

\* The step is a call of a noteOff closure that passes the ownership check.
OffOwned ==
  /\ Called("noteOff")
  /\ ret'.id # 0
  /\ heap[closures[ret'.id].voice].noteId = ret'.id

\* C25: a noteOff that passes the ownership check never divides by an
\* attackTime of zero and always completes: it ends without an error and leaves
\* the voice with age = EXPIRED and noteId = -1.
C25_NoteOffCompletes ==
  [][OffOwned
     => LET c == closures[ret'.id]
        IN  /\ currentTime < c.now + c.attackTime => c.attackTime # 0
            /\ ret'.outcome = "released"
            /\ heap'[c.voice].age = EXPIRED
            /\ heap'[c.voice].noteId = -1]_vars

\* C23: a noteOff that passes the ownership check at clock time t1 leaves its
\* voice with age = EXPIRED and noteId = -1, makes on the gain
\* cancelScheduledValues(t1), then setValueAtTime(hold, t1) only if
\* t1 < t0 + attackTime, then setTargetAtTime(0, t1, releaseTime * 0.5), and
\* changes no other voice.
C23_ReleaseSequence ==
  [][OffOwned
     => LET id == ret'.id
            c  == closures[id]
            t1 == currentTime
            E(fn, value, tc) ==
              [voice |-> c.voice, param |-> "gain", fn |-> fn, value |-> value,
               time |-> t1, tc |-> tc, note |-> id]
            hold == Frac(c.velocity * (t1 - c.now), c.attackTime)
        IN  /\ heap'[c.voice].age = EXPIRED
            /\ heap'[c.voice].noteId = -1
            /\ ret'.calls
                 = <<E("cancelScheduledValues", Frac(0, 1), Frac(0, 1))>>
                   \o (IF t1 < c.now + c.attackTime
                       THEN <<E("setValueAtTime", hold, Frac(0, 1))>>
                       ELSE <<>>)
                   \o <<E("setTargetAtTime", Frac(0, 1), Frac(c.releaseTime, 2))>>
            /\ \A v \in DOMAIN heap : v # c.voice => heap'[v] = heap[v]]_vars

\* C24: the value a noteOff holds the gain at lies between 0 and the velocity
\* for every release time t1 < t0 + attackTime, a release before the delayed
\* start t0 included.
C24_HoldValueInRange ==
  [][(OffOwned /\ currentTime < closures[ret'.id].now + closures[ret'.id].attackTime)
     => LET c == closures[ret'.id]
            hold == HoldValue(c, currentTime)
        IN  /\ Finite(hold)
            /\ ~Less(hold, Num(0))
            /\ ~Less(Num(c.velocity), hold)]_vars

\* The step is a Synth.noteOn that ran its round over the pool: every call but
\* the one on an empty pool.
NoteOnRound == Called("noteOn") /\ ret'.outcome # "noop"

\* What C26 states of the voices of the pool in one state: each noteId is 0, -1
\* or an id that has been issued, a voice whose noteId is 0 or -1 has
\* age >= EXPIRED, and the voices with a positive noteId have pairwise distinct
\* ages.
VoiceAges ==
  \A v \in PoolVoices :
    /\ heap[v].noteId \in {0, -1} \cup (1 .. NOTE_ID - 1)
    /\ heap[v].noteId \in {0, -1} => heap[v].age >= EXPIRED
    /\ \A w \in PoolVoices \ {v} :
         (heap[v].noteId > 0 /\ heap[w].noteId > 0) => heap[v].age # heap[w].age

\* C26: each noteId is 0, -1 or a positive issued id; a voice with noteId 0 or
\* -1 has age >= EXPIRED; a playing voice has as its age the number of noteOn
\* rounds on its pool since it was triggered (0 when triggered, one more with
\* every round, unchanged by every other step while it plays the note), so the
\* playing voices of the pool have pairwise distinct ages.
C26_AgeCountsRounds ==
  [][/\ VoiceAges'
     /\ NoteOnOk => heap'[ret'.voice].age = 0
     /\ \A v \in PoolVoices \cap PoolVoices' :
          (heap[v].noteId > 0 /\ heap'[v].noteId = heap[v].noteId)
          => heap'[v].age = IF NoteOnRound THEN heap[v].age + 1 ELSE heap[v].age]_vars

\* C28: calling the noteOff closure of a voice that setPolyphony has disposed of
\* changes the age, the noteId and the gain timeline of no voice that is in the
\* pool, also after the pool has been regrown.
C28_DisposedClosureLeavesPool ==
  [][(/\ Called("noteOff")
      /\ ret'.id # 0
      /\ heap[closures[ret'.id].voice].disposed > 0)
     => \A v \in PoolVoices :
          /\ heap'[v].age = heap[v].age
          /\ heap'[v].noteId = heap[v].noteId
          /\ heap'[v].gain = heap[v].gain]_vars

\* The closure of a disposed voice has passed the ownership check and released
\* its voice, while the regrown pool holds a new voice that plays a note.
C28_Witness ==
  /\ ret.op = "noteOff"
  /\ ret.outcome = "released"
  /\ heap[ret.voice].disposed > 0
  /\ heap[ret.voice].noteId = -1
  /\ ret.voice \notin PoolVoices
  /\ \E v \in PoolVoices : heap[v].noteId > 0 /\ heap[v].age = 0

\* C27: for every voice class, the buffer voice included, the lastNoteOff of a
\* triggered voice is the same release action as the closure noteOn returned:
\* what allNotesOff does to each voice of the pool that has a lastNoteOff (the
\* envelope release and the stopping of the buffer source node) is what a call
\* of the returned closure does to it.
C27_LastNoteOffIsReturnedClosure ==
  [][Called("allNotesOff")
     => \A v \in PoolVoices :
          heap[v].lastNoteOff # 0
          => heap'[v]
               = ReturnedClosure(heap, closures, heap[v].lastNoteOff,
                                 currentTime).heap[v]]_vars

====
